---- MODULE Spec2Model ----
(***************************************************************************)
(* A model of script_translate.py: the chunked translator                  *)
(* (batch_translate_text), the progress tracker (update_progress_bar),     *)
(* the orchestrator (main, worker_process_language) and the font engine    *)
(* (normalize_name, scan_directory, get_excel_font_family).                *)
(*                                                                         *)
(* Four specifications share the variables:                                *)
(*   SpecBatch      one call of batch_translate_text on an arbitrary input,*)
(*   Spec           a whole run of main(): font scan, prompt, pool of      *)
(*                  language workers, merge, save, font formatting,        *)
(*   SpecFont       the font index and the resolver, called in any order,  *)
(*   SpecNormalize  normalize_name applied to a name and to its results.   *)
(*                                                                         *)
(* Python strings are TLA+ strings; a spreadsheet cell is a record         *)
(* [na, s]: na marks a missing value (NaN), s is what str() gives.         *)
(* The translation provider is outside the program: a call either raises   *)
(* or answers, and which of the two is chosen with \E at every call.       *)
(***************************************************************************)
EXTENDS Integers, Sequences, FiniteSets, TLC

\* ------------------------------------------------------------------------
\* Bounds of the model
\* ------------------------------------------------------------------------
MaxLen == 4        \* longest text_list given to one call (SpecBatch)
MaxChunk == 3      \* largest CHUNK_SIZE tried (SpecBatch)
MaxRows == 2       \* most rows of english.xlsx (Spec)
MaxRunChunk == 2   \* largest CHUNK_SIZE tried in a run (Spec)
MaxPool == 2       \* largest MAX_WORKERS tried in a run (Spec)
MaxFiles == 2      \* most files in one font directory (SpecFont)
MaxScans == 2      \* most calls of scan_directory (SpecFont)
MaxPieces == 3     \* most pieces of a file name (SpecNormalize)
MaxApply == 2      \* most applications of normalize_name in a row (SpecNormalize)

\* ------------------------------------------------------------------------
\* Python string helpers
\* ------------------------------------------------------------------------
Tail1(s) == SubSeq(s, 2, Len(s))

Front1(s) == SubSeq(s, 1, Len(s) - 1)

IsSpace(c) == c \in {" ", "\t"}

RECURSIVE LStrip(_)
LStrip(s) ==
    IF Len(s) > 0 /\ IsSpace(SubSeq(s, 1, 1)) THEN LStrip(Tail1(s)) ELSE s

RECURSIVE RStrip(_)
RStrip(s) ==
    IF Len(s) > 0 /\ IsSpace(SubSeq(s, Len(s), Len(s))) THEN RStrip(Front1(s)) ELSE s

\* str.strip()
Strip(s) == RStrip(LStrip(s))

\* str.replace(old, new), old not empty
RECURSIVE Replace(_, _, _)
Replace(s, old, new) ==
    IF Len(s) < Len(old) THEN s
    ELSE IF SubSeq(s, 1, Len(old)) = old
         THEN new \o Replace(SubSeq(s, Len(old) + 1, Len(s)), old, new)
         ELSE SubSeq(s, 1, 1) \o Replace(Tail1(s), old, new)

\* sub in s
Contains(s, sub) ==
    \E i \in 0..(Len(s) - Len(sub)) : SubSeq(s, i + 1, i + Len(sub)) = sub

\* s.endswith(suffix)
EndsWith(s, suffix) ==
    Len(s) >= Len(suffix) /\ SubSeq(s, Len(s) - Len(suffix) + 1, Len(s)) = suffix

UpperCase == "ABCDEFGHIJKLMNOPQRSTUVWXYZ"

LowerCase == "abcdefghijklmnopqrstuvwxyz"

LowerOf ==
    [c \in {SubSeq(UpperCase, i, i) : i \in 1..26} |->
        SubSeq(LowerCase, CHOOSE j \in 1..26 : SubSeq(UpperCase, j, j) = c,
                          CHOOSE j \in 1..26 : SubSeq(UpperCase, j, j) = c)]

LowerChar(c) == IF c \in DOMAIN LowerOf THEN LowerOf[c] ELSE c

\* str.lower()
RECURSIVE Lower(_)
Lower(s) == IF s = "" THEN "" ELSE LowerChar(SubSeq(s, 1, 1)) \o Lower(Tail1(s))

\* re.sub(r'[\s\-_]', '', s)
RECURSIVE RemoveSeparators(_)
RemoveSeparators(s) ==
    IF s = "" THEN ""
    ELSE IF SubSeq(s, 1, 1) \in {" ", "\t", "-", "_"} THEN RemoveSeparators(Tail1(s))
    ELSE SubSeq(s, 1, 1) \o RemoveSeparators(Tail1(s))

\* os.path.splitext(name)[0] of a name without directory: cut at the last
\* dot, unless only dots come before it
SplitExtRoot(name) ==
    LET dots == {i \in 1..Len(name) : SubSeq(name, i, i) = "."}
    IN  IF dots = {} THEN name
        ELSE LET last == CHOOSE i \in dots : \A j \in dots : j <= i
             IN  IF \E i \in 1..(last - 1) : SubSeq(name, i, i) # "."
                 THEN SubSeq(name, 1, last - 1)
                 ELSE name

IsDigit(c) == c \in {"0", "1", "2", "3", "4", "5", "6", "7", "8", "9"}

RECURSIVE DropDigits(_)
DropDigits(s) ==
    IF Len(s) > 0 /\ IsDigit(SubSeq(s, 1, 1)) THEN DropDigits(Tail1(s)) ELSE s

\* re.sub(r'wght\d+', '', s)
RECURSIVE RemoveWght(_)
RemoveWght(s) ==
    IF s = "" THEN ""
    ELSE IF Len(s) >= 5 /\ SubSeq(s, 1, 4) = "wght" /\ IsDigit(SubSeq(s, 5, 5))
         THEN RemoveWght(DropDigits(SubSeq(s, 5, Len(s))))
         ELSE SubSeq(s, 1, 1) \o RemoveWght(Tail1(s))

\* ------------------------------------------------------------------------
\* Cells of the input table
\* ------------------------------------------------------------------------
Str(s) == [na |-> FALSE, s |-> s]

NaN == [na |-> TRUE, s |-> "nan"]

pd_notna(t) == ~t.na

str(t) == t.s

\* ------------------------------------------------------------------------
\* The translation provider (deep_translator.GoogleTranslator), seen from
\* its call sites: the answer to one text, and to a batch of texts
\* ------------------------------------------------------------------------
Translate(item, target_code) ==
    IF Strip(item) = "" THEN Strip(item) ELSE target_code \o ":" \o item

TranslateBatchAnswer(clean_batch, target_code) ==
    [k \in 1..Len(clean_batch) |-> Translate(clean_batch[k], target_code)]

TRANSLATION_ERROR == "[Translation Error]"

\* ------------------------------------------------------------------------
\* batch_translate_text: the pure parts of one loop iteration
\* ------------------------------------------------------------------------
Min(a, b) == IF a < b THEN a ELSE b

\* text_list[i : i + CHUNK_SIZE], i counted from 0 as in the code
Slice(text_list, i, size) == SubSeq(text_list, i + 1, Min(i + size, Len(text_list)))

\* (mutant) the blank test without strip()
CleanItem_NoStrip(t) == IF pd_notna(t) /\ str(t) # "" THEN str(t) ELSE ""

CleanItem(t) == IF pd_notna(t) /\ Strip(str(t)) # "" THEN str(t) ELSE ""

CleanBatch(batch) == [k \in 1..Len(batch) |-> CleanItem(batch[k])]

AllEmpty(clean_batch) == \A k \in 1..Len(clean_batch) : clean_batch[k] = ""

EmptyResults(batch) == [k \in 1..Len(batch) |-> ""]

\* (mutant) an item whose own call raises is left empty, without the sentinel
DegradedItem_NoSentinel(item, target_code, fails) ==
    IF item = "" \/ fails THEN "" ELSE Translate(item, target_code)

\* the except branch: failed is the set of positions whose own call raises
DegradedItem(item, target_code, fails) ==
    IF item = "" THEN ""
    ELSE IF fails THEN TRANSLATION_ERROR
    ELSE Translate(item, target_code)

\* (mutant) a failed item is skipped instead of marked
DegradedResults_DropFailed(clean_batch, target_code, failed) ==
    LET kept == {k \in 1..Len(clean_batch) : k \notin failed}
        F[n \in 0..Len(clean_batch)] ==
            IF n = 0 THEN <<>>
            ELSE IF n \in kept
                 THEN Append(F[n - 1], DegradedItem(clean_batch[n], target_code, FALSE))
                 ELSE F[n - 1]
    IN  F[Len(clean_batch)]

DegradedResults(clean_batch, target_code, failed) ==
    [k \in 1..Len(clean_batch) |->
        DegradedItem(clean_batch[k], target_code, k \in failed)]

\* positions of the batch for which the except branch calls the provider
ItemCallPositions(clean_batch) == {k \in 1..Len(clean_batch) : clean_batch[k] # ""}

\* (mutant) the new part is put in front
Extend_Prepend(results, part) == part \o results

\* results.extend(part)
Extend(results, part) == results \o part

\* ------------------------------------------------------------------------
\* State
\* ------------------------------------------------------------------------
VARIABLES
    CHUNK_SIZE,                \* the batch size setting
    MAX_WORKERS,               \* the pool size setting
    unsupported,               \* language codes the provider's constructor rejects
    provider,                  \* "up": every call answers, "down": every call
                               \* raises, "any": each call answers or raises
    xlsx,                      \* the rows of english.xlsx
    w,                         \* per task: position and locals of the worker
    progress_lock,             \* 0, or the task that holds the lock
    processed_chunks_global,
    total_chunks_global,
    rendered,                  \* the curr values handed to the bar, in order
    pc,                        \* position of main()
    u_in,                      \* what the user typed
    input_exists,              \* english.xlsx is there
    sel_ids,
    target_ids,
    df,                        \* the table: column names in order, and their data
    futures,                   \* number of tasks submitted so far
    finished_futures,          \* tasks in the order they completed
    collected,                 \* tasks whose future as_completed has yielded
    pre_finished,              \* tasks found finished when as_completed starts
    results,
    disk,                      \* per font directory: is it there, and its files
    FONT_PATH_CACHE,           \* the font index: normalized key -> paths
    scans,                     \* calls of scan_directory so far
    scan_count,                \* what the last scan_directory returned
    language_name,             \* argument of the last get_excel_font_family
    font_family,               \* and what it returned
    file_name,                 \* a name handed to normalize_name
    normalized,                \* what normalize_name returned for it, and for
                               \* each of its own results handed back to it
    fmt_col                    \* columns the formatting loop has gone through

workerVars == <<w, progress_lock, processed_chunks_global, rendered>>

mainVars == <<pc, u_in, input_exists, sel_ids, target_ids, df, futures,
              finished_futures, collected, pre_finished, results,
              total_chunks_global>>

configVars == <<CHUNK_SIZE, MAX_WORKERS, unsupported, provider, xlsx>>

fontVars == <<disk, FONT_PATH_CACHE, scans, scan_count, language_name, font_family,
              file_name, normalized, fmt_col>>

vars == <<configVars, workerVars, mainVars, fontVars>>

\* the language table of main(), its first entries
langs ==
    <<[name |-> "English", code |-> "en"],
      [name |-> "Mandarin Chinese", code |-> "zh-CN"],
      [name |-> "Hindi", code |-> "hi"]>>

\* a run submits one task per entry of target_ids; the selections tried have
\* no more entries than the table
Tasks == 1..Len(langs)

\* a task slot nothing was submitted to
IdleTask ==
    [pc |-> "idle", lang |-> 0, code |-> "", clean_name |-> "", stream |-> "", text_list |-> <<>>,
     i |-> 0, results |-> <<>>, path |-> "", tmp |-> 0, hist |-> <<>>,
     translated_words |-> <<>>, ret |-> <<>>]

\* entry of one call of batch_translate_text(text_list, target_code), up to
\* the loop: GoogleTranslator(source='auto', target=target_code) raises for
\* a language code the provider does not know
EnterBatchTranslate(task, stream, text_list) ==
    [task EXCEPT !.pc = IF task.code \in unsupported THEN "raised" ELSE "loop",
                 !.stream = stream, !.text_list = text_list,
                 !.i = 0, !.results = <<>>, !.path = "", !.hist = <<>>]

\* ------------------------------------------------------------------------
\* batch_translate_text, one action per step of a worker t
\* ------------------------------------------------------------------------

AtBatch(t) == w[t].pc = "loop" /\ w[t].i < Len(w[t].text_list)

CurBatch(t) == Slice(w[t].text_list, w[t].i, CHUNK_SIZE)

\* the history of a call is kept when the call is looked at on its own
Observed(t) == w[t].stream = "unit"

HistEntry(t, path, failed, calls) ==
    [lo |-> w[t].i, batch |-> CurBatch(t), path |-> path, failed |-> failed,
     calls |-> calls, advances |-> 0, sleeps |-> 0]

\* (mutant) the all-empty branch continues without update_progress_bar()
AfterBatch_EmptySkipsAdvance(t, part, path, failed, calls) ==
    [w EXCEPT ![t].results = Extend(@, part),
              ![t].i = @ + CHUNK_SIZE,
              ![t].path = path,
              ![t].hist = IF Observed(t) THEN Append(@, HistEntry(t, path, failed, calls)) ELSE @,
              ![t].pc = IF path = "empty" THEN "loop" ELSE "upb"]

AfterBatch(t, part, path, failed, calls) ==
    [w EXCEPT ![t].results = Extend(@, part),
              ![t].i = @ + CHUNK_SIZE,
              ![t].path = path,
              ![t].hist = IF Observed(t) THEN Append(@, HistEntry(t, path, failed, calls)) ELSE @,
              ![t].pc = "upb"]

\* lines 422-425: the whole batch is empty rows
BatchAllEmpty(t) ==
    /\ AtBatch(t)
    /\ AllEmpty(CleanBatch(CurBatch(t)))
    /\ w' = AfterBatch(t, EmptyResults(CurBatch(t)), "empty", {}, 0)
    /\ UNCHANGED <<configVars, fontVars, mainVars, progress_lock, processed_chunks_global, rendered>>

\* lines 427-430: the batched call answers
BatchSuccess(t) ==
    /\ AtBatch(t)
    /\ provider # "down"
    /\ ~AllEmpty(CleanBatch(CurBatch(t)))
    /\ w' = AfterBatch(t, TranslateBatchAnswer(CleanBatch(CurBatch(t)), w[t].code),
                       "ok", {}, 1)
    /\ UNCHANGED <<configVars, fontVars, mainVars, progress_lock, processed_chunks_global, rendered>>

\* the sets of item calls that can raise
FailChoices(clean_batch) ==
    IF provider = "down" THEN {ItemCallPositions(clean_batch)}
    ELSE SUBSET ItemCallPositions(clean_batch)

\* lines 431-441: the batched call raises, every item is tried on its own
BatchDegraded(t) ==
    /\ AtBatch(t)
    /\ provider # "up"
    /\ ~AllEmpty(CleanBatch(CurBatch(t)))
    /\ LET clean == CleanBatch(CurBatch(t)) IN
       \E failed \in FailChoices(clean) :
          w' = AfterBatch(t, DegradedResults(clean, w[t].code, failed),
                          "degraded", failed,
                          1 + Cardinality(ItemCallPositions(clean)))
    /\ UNCHANGED <<configVars, fontVars, mainVars, progress_lock, processed_chunks_global, rendered>>

\* ------------------------------------------------------------------------
\* update_progress_bar
\* ------------------------------------------------------------------------
\* (mutant) the counter is updated without the lock
LockFree_NoLock(t) == TRUE

LockFree(t) == progress_lock = 0

MarkLast(hist, field) ==
    [hist EXCEPT ![Len(hist)] = [@ EXCEPT ![field] = @ + 1]]

\* with progress_lock: ... the read half of processed_chunks_global += 1
UpbAcquire(t) ==
    /\ w[t].pc = "upb"
    /\ LockFree(t)
    /\ progress_lock' = t
    /\ w' = [w EXCEPT ![t].pc = "upb_locked", ![t].tmp = processed_chunks_global]
    /\ UNCHANGED <<configVars, fontVars, mainVars, processed_chunks_global, rendered>>

\* (mutant) the loop goes on without the pause
MarkSlept_Never(hist, path) == hist

MarkSlept(hist, path) ==
    IF path = "empty" THEN hist ELSE MarkLast(hist, "sleeps")

\* the write half, curr, tot = ..., and the release; the bar is drawn from
\* the locals curr and tot. Then line 425 continues the loop, and lines
\* 443-444 sleep for REQUEST_DELAY before they do
UpbRelease(t) ==
    /\ w[t].pc = "upb_locked"
    /\ processed_chunks_global' = w[t].tmp + 1
    /\ rendered' = Append(rendered, <<w[t].tmp + 1, total_chunks_global>>)
    /\ progress_lock' = IF progress_lock = t THEN 0 ELSE progress_lock
    /\ w' = [w EXCEPT ![t].pc = "loop",
                      ![t].hist = IF Observed(t)
                                  THEN MarkSlept(MarkLast(@, "advances"), w[t].path)
                                  ELSE @]
    /\ UNCHANGED <<configVars, fontVars, mainVars>>

\* return results, to a caller outside the run (SpecBatch)
ReturnUnit(t) ==
    /\ w[t].pc = "loop" /\ w[t].i >= Len(w[t].text_list)
    /\ w[t].stream = "unit"
    /\ w' = [w EXCEPT ![t].pc = "returned", ![t].ret = w[t].results]
    /\ UNCHANGED <<configVars, fontVars, mainVars, progress_lock, processed_chunks_global, rendered>>

BatchTranslateStep(t) ==
    \/ BatchAllEmpty(t)
    \/ BatchSuccess(t)
    \/ BatchDegraded(t)
    \/ UpbAcquire(t)
    \/ UpbRelease(t)

\* ------------------------------------------------------------------------
\* SpecBatch: one call of batch_translate_text on any input
\* ------------------------------------------------------------------------
BatchCells == {Str("a"), Str("b"), Str(""), Str(" "), NaN}

SeqsUpTo(S, n) == UNION {[1..k -> S] : k \in 0..n}

MainOff ==
    /\ pc = "off"
    /\ u_in = <<>>
    /\ input_exists = TRUE
    /\ sel_ids = <<>>
    /\ target_ids = <<>>
    /\ df = [cols |-> <<>>, data |-> <<>>, nrows |-> 0]
    /\ futures = 0
    /\ finished_futures = <<>>
    /\ collected = {}
    /\ pre_finished = {}
    /\ results = <<>>
    /\ total_chunks_global = 0

\* FONTS_DIR and the system font folder of scan_all_fonts
FontDirs == {"fonts", "C:/Windows/Fonts"}

FontOff ==
    /\ disk = [d \in FontDirs |-> [exists |-> FALSE, files |-> {}]]
    /\ FONT_PATH_CACHE = <<>>
    /\ scans = 0
    /\ scan_count = 0
    /\ language_name = ""
    /\ font_family = ""
    /\ file_name = ""
    /\ normalized = <<>>
    /\ fmt_col = 0

ProgressInit ==
    /\ progress_lock = 0
    /\ processed_chunks_global = 0
    /\ rendered = <<>>

InitBatch ==
    /\ CHUNK_SIZE \in 1..MaxChunk
    /\ MAX_WORKERS = 1
    /\ unsupported \in {{}, {"hi"}}
    /\ provider = "any"
    /\ xlsx = <<>>
    /\ \E text_list \in SeqsUpTo(BatchCells, MaxLen) :
          w = [t \in Tasks |->
                 IF t = 1
                 THEN EnterBatchTranslate([IdleTask EXCEPT !.code = "hi"], "unit", text_list)
                 ELSE IdleTask]
    /\ ProgressInit
    /\ MainOff
    /\ FontOff

NextBatch == BatchTranslateStep(1) \/ ReturnUnit(1)

SpecBatch == InitBatch /\ [][NextBatch]_vars

\* ------------------------------------------------------------------------
\* worker_process_language, run by a thread of the pool
\* ------------------------------------------------------------------------
Range(f) == {f[k] : k \in DOMAIN f}

\* name.replace(" ", "_").replace("(", "").replace(")", "")
CleanName(name) == Replace(Replace(Replace(name, " ", "_"), "(", ""), ")", "")

Running(t) == w[t].pc \notin {"idle", "queued", "done", "failed"}

\* a thread of the pool is free and takes the oldest queued work item;
\* the task reaches its first call of batch_translate_text
StartTask(t) ==
    /\ w[t].pc = "queued"
    /\ \A u \in Tasks : u < t => w[u].pc # "queued"
    /\ Cardinality({u \in Tasks : Running(u)}) < MAX_WORKERS
    /\ w' = [w EXCEPT ![t] =
               EnterBatchTranslate(
                  [w[t] EXCEPT !.code = langs[w[t].lang].code,
                               !.clean_name = CleanName(langs[w[t].lang].name)],
                  "w", df.data["English_word"])]
    /\ UNCHANGED <<configVars, fontVars, mainVars, progress_lock, processed_chunks_global, rendered>>

AtReturn(t) == w[t].pc = "loop" /\ w[t].i >= Len(w[t].text_list)

\* translated_words = ...; the second call, for the descriptions
ReturnWords(t) ==
    /\ AtReturn(t)
    /\ w[t].stream = "w"
    /\ w' = [w EXCEPT ![t] =
               EnterBatchTranslate([w[t] EXCEPT !.translated_words = w[t].results],
                                   "d", df.data["English_descr"])]
    /\ UNCHANGED <<configVars, fontVars, mainVars, progress_lock, processed_chunks_global, rendered>>

WorkerResult(task) ==
    [w_col |-> task.clean_name \o "_word", w_data |-> task.translated_words,
     d_col |-> task.clean_name \o "_descr", d_data |-> task.results]

\* translated_desc = ...; return {...}: the future gets its result
ReturnDescr(t) ==
    /\ AtReturn(t)
    /\ w[t].stream = "d"
    /\ w' = [w EXCEPT ![t].pc = "done", ![t].ret = WorkerResult(w[t])]
    /\ finished_futures' = Append(finished_futures, t)
    /\ UNCHANGED <<configVars, fontVars, pc, u_in, input_exists, sel_ids, target_ids, df, futures,
                   collected, pre_finished, results, total_chunks_global,
                   progress_lock, processed_chunks_global, rendered>>

\* the exception leaves worker_process_language: the future gets it
WorkerRaised(t) ==
    /\ w[t].pc = "raised"
    /\ w[t].stream # "unit"
    /\ w' = [w EXCEPT ![t].pc = "failed"]
    /\ finished_futures' = Append(finished_futures, t)
    /\ UNCHANGED <<configVars, fontVars, pc, u_in, input_exists, sel_ids, target_ids, df, futures,
                   collected, pre_finished, results, total_chunks_global,
                   progress_lock, processed_chunks_global, rendered>>

\* ------------------------------------------------------------------------
\* main()
\* ------------------------------------------------------------------------
\* what the prompt can get: 'all', something that is no list of numbers, or
\* a list of numbers: the source language alone, one language, two languages
\* in either order, with the source language, an id twice, an unknown id
IdLists ==
    {<<1>>, <<2>>, <<9>>, <<2, 3>>, <<3, 2>>, <<1, 3>>, <<3, 3>>, <<2, 9>>}

UserInputs ==
    {[kind |-> "all", parts |-> <<>>], [kind |-> "bad", parts |-> <<>>]}
    \cup {[kind |-> "ids", parts |-> p] : p \in IdLists}

SelectedIds(input) ==
    IF input.kind = "all" THEN [k \in 1..Len(langs) |-> k]
    ELSE SelectSeq(input.parts, LAMBDA p : p \in DOMAIN langs)

\* lines 533-549
ReadSelection ==
    /\ pc = "prompt"
    /\ IF u_in.kind = "bad"
       THEN pc' = "exit" /\ UNCHANGED sel_ids
       ELSE /\ sel_ids' = SelectedIds(u_in)
            /\ pc' = IF sel_ids' = <<>> THEN "exit" ELSE "load"
    /\ UNCHANGED <<configVars, fontVars, workerVars, u_in, input_exists, target_ids, df, futures,
                   finished_futures, collected, pre_finished, results,
                   total_chunks_global>>

FillNa(c) == IF c.na THEN Str("") ELSE c

\* pd.read_excel(INPUT_FILE).fillna('')
ReadExcel(rows) ==
    [cols |-> <<"English_word", "English_descr">>,
     data |-> [c \in {"English_word", "English_descr"} |->
                 [k \in 1..Len(rows) |->
                    FillNa(rows[k][IF c = "English_word" THEN 1 ELSE 2])]],
     nrows |-> Len(rows)]

\* lines 552-568
LoadData ==
    /\ pc = "load"
    /\ IF ~input_exists
       THEN pc' = "exit" /\ UNCHANGED <<df, target_ids>>
       ELSE /\ df' = ReadExcel(xlsx)
            /\ target_ids' = SelectSeq(sel_ids, LAMBDA i : i # 1)
            /\ pc' = IF target_ids' # <<>> THEN "total" ELSE "save"
    /\ UNCHANGED <<configVars, fontVars, workerVars, u_in, input_exists, sel_ids, futures,
                   finished_futures, collected, pre_finished, results,
                   total_chunks_global>>

\* ceil(n / d)
Ceil(n, d) == IF n % d = 0 THEN n \div d ELSE (n \div d) + 1

\* (mutant) the description stream is not counted
TotalChunks_OneStream(row_count, chunk_size, n_targets) ==
    Ceil(row_count, chunk_size) * n_targets

\* (mutant) whole batches only
TotalChunks_Floor(row_count, chunk_size, n_targets) ==
    (row_count \div chunk_size) * 2 * n_targets

TotalChunks(row_count, chunk_size, n_targets) ==
    Ceil(row_count, chunk_size) * 2 * n_targets

\* lines 572-573
ComputeTotal ==
    /\ pc = "total"
    /\ total_chunks_global' = TotalChunks(df.nrows, CHUNK_SIZE, Len(target_ids))
    /\ pc' = "submit"
    /\ UNCHANGED <<configVars, fontVars, workerVars, u_in, input_exists, sel_ids, target_ids, df,
                   futures, finished_futures, collected, pre_finished, results>>

\* one turn of the loop of lines 580-581: executor.submit(...)
Submit ==
    /\ pc = "submit"
    /\ futures < Len(target_ids)
    /\ futures' = futures + 1
    /\ w' = [w EXCEPT ![futures + 1] =
               [IdleTask EXCEPT !.pc = "queued", !.lang = target_ids[futures + 1]]]
    /\ pc' = IF futures' = Len(target_ids) THEN "as_completed" ELSE "submit"
    /\ UNCHANGED <<configVars, fontVars, progress_lock, processed_chunks_global, rendered,
                   u_in, input_exists, sel_ids, target_ids, df,
                   finished_futures, collected, pre_finished, results,
                   total_chunks_global>>

Finished(t) == w[t].pc \in {"done", "failed"}

\* as_completed(futures) sets off: the futures already finished are set aside
AsCompletedStart ==
    /\ pc = "as_completed"
    /\ pre_finished' = {t \in 1..futures : Finished(t)}
    /\ pc' = "collect"
    /\ UNCHANGED <<configVars, fontVars, workerVars, u_in, input_exists, sel_ids, target_ids, df,
                   futures, finished_futures, collected, results, total_chunks_global>>

\* (mutant) for future in futures: the oldest future not yet collected, once
\* it has finished
Yieldable_SubmissionOrder ==
    LET waiting == (1..futures) \ collected
    IN  IF waiting = {} THEN {}
        ELSE {t \in waiting : Finished(t) /\ \A u \in waiting : t <= u}

\* the futures as_completed can yield next: those found finished at its
\* start in any order (they are kept in a set), then the others in the order
\* they finish
Yieldable ==
    IF pre_finished \ collected # {} THEN pre_finished \ collected
    ELSE LET later == SelectSeq(finished_futures, LAMBDA t : t \notin collected)
         IN  IF later = <<>> THEN {} ELSE {later[1]}

\* (mutant) a failed task leaves a result with empty columns
CollectResult_Placeholder(res, task) ==
    IF task.pc = "done" THEN Append(res, task.ret)
    ELSE Append(res, [w_col |-> task.clean_name \o "_word", w_data |-> <<>>,
                      d_col |-> task.clean_name \o "_descr", d_data |-> <<>>])

\* try: results.append(future.result()) / except: print(...)
CollectResult(res, task) ==
    IF task.pc = "done" THEN Append(res, task.ret) ELSE res

\* (mutant) the columns of a result are put into the table as soon as the
\* result is collected
Collect_MergesOnArrival ==
    /\ pc = "collect"
    /\ \E t \in Yieldable :
          /\ collected' = collected \cup {t}
          /\ results' = CollectResult(results, w[t])
          /\ df' = IF w[t].pc = "done" THEN [df EXCEPT !.cols = Append(@, w[t].ret.w_col)]
                                       ELSE df
          /\ pc' = IF collected' = 1..futures THEN "merge" ELSE "collect"
    /\ UNCHANGED <<configVars, fontVars, workerVars, u_in, input_exists, sel_ids, target_ids,
                   futures, finished_futures, pre_finished, total_chunks_global>>

\* one turn of the loop of lines 583-585
Collect ==
    /\ pc = "collect"
    /\ \E t \in Yieldable :
          /\ collected' = collected \cup {t}
          /\ results' = CollectResult(results, w[t])
          /\ pc' = IF collected' = 1..futures THEN "merge" ELSE "collect"
    /\ UNCHANGED <<configVars, fontVars, workerVars, u_in, input_exists, sel_ids, target_ids, df,
                   futures, finished_futures, pre_finished, total_chunks_global>>

\* df[col] = data: a new column goes last, a known one is overwritten
SetColumn(d, col, data) ==
    [d EXCEPT !.cols = IF col \in Range(@) THEN @ ELSE Append(@, col),
              !.data = [c \in (DOMAIN @) \cup {col} |-> IF c = col THEN data ELSE @[c]]]

\* (mutant) the two data lists are swapped
MergeResult_Swapped(d, res) ==
    SetColumn(SetColumn(d, res.w_col, res.d_data), res.d_col, res.w_data)

\* lines 591-592
MergeResult(d, res) ==
    SetColumn(SetColumn(d, res.w_col, res.w_data), res.d_col, res.d_data)

RECURSIVE MergeAll(_, _)
MergeAll(d, res) ==
    IF res = <<>> THEN d ELSE MergeAll(MergeResult(d, Head(res)), Tail(res))

\* pandas refuses a column whose length is not the table's
Fits(d, res) == Len(res.w_data) = d.nrows /\ Len(res.d_data) = d.nrows

\* lines 590-592
Merge ==
    /\ pc = "merge"
    /\ IF \A k \in 1..Len(results) : Fits(df, results[k])
       THEN df' = MergeAll(df, results) /\ pc' = "save"
       ELSE pc' = "crashed" /\ UNCHANGED df
    /\ UNCHANGED <<configVars, fontVars, workerVars, u_in, input_exists, sel_ids, target_ids,
                   futures, finished_futures, collected, pre_finished, results,
                   total_chunks_global>>

\* df.to_excel(OUTPUT_FILE, index=False)
Save ==
    /\ pc = "save"
    /\ pc' = "saved"
    /\ UNCHANGED <<configVars, fontVars, workerVars, u_in, input_exists, sel_ids, target_ids, df,
                   futures, finished_futures, collected, pre_finished, results,
                   total_chunks_global>>

\* ------------------------------------------------------------------------
\* The font engine
\* ------------------------------------------------------------------------

\* FONT_CONFIG, in the order of the dictionary
FONT_CONFIG ==
    <<
      [key |-> "Default",
       search_terms |-> <<"notosansliving", "notosans-regular", "arial", "helvetica", "calibri", "segoeui">>,
       family |-> "Noto Sans"],
      [key |-> "French",
       search_terms |-> <<"notosans-regular", "arial">>,
       family |-> "Noto Sans"],
      [key |-> "Spanish",
       search_terms |-> <<"notosans-regular", "arial">>,
       family |-> "Noto Sans"],
      [key |-> "German",
       search_terms |-> <<"notosans-regular", "arial">>,
       family |-> "Noto Sans"],
      [key |-> "Italian",
       search_terms |-> <<"notosans-regular", "arial">>,
       family |-> "Noto Sans"],
      [key |-> "Portuguese",
       search_terms |-> <<"notosans-regular", "arial">>,
       family |-> "Noto Sans"],
      [key |-> "Turkish",
       search_terms |-> <<"notosans-regular", "arial">>,
       family |-> "Noto Sans"],
      [key |-> "Indonesian",
       search_terms |-> <<"notosansliving", "notosans-regular", "arial">>,
       family |-> "Noto Sans"],
      [key |-> "Russian",
       search_terms |-> <<"notosanscyrillic", "notosans-regular", "arial", "segoeui">>,
       family |-> "Noto Sans"],
      [key |-> "Vietnamese",
       search_terms |-> <<"notosansvietnamese", "notosans-regular", "arial", "segoeui">>,
       family |-> "Noto Sans"],
      [key |-> "Hausa",
       search_terms |-> <<"notosans-regular", "arial">>,
       family |-> "Noto Sans"],
      [key |-> "Swahili",
       search_terms |-> <<"notosans-regular", "arial">>,
       family |-> "Noto Sans"],
      [key |-> "Mandarin_Chinese",
       search_terms |-> <<"notosanssc", "notosanscjksc", "simhei", "simkai", "arialuni", "dengxian", "notoserifcjk">>,
       family |-> "Noto Sans SC"],
      [key |-> "Wu_Chinese",
       search_terms |-> <<"notosanssc", "notosanscjksc", "simhei", "arialuni">>,
       family |-> "Noto Sans SC"],
      [key |-> "Yue_Chinese",
       search_terms |-> <<"notosanstc", "notosanscjktc", "microsoftjhenghei", "msjh", "mingliu", "pmingliu", "simhei">>,
       family |-> "Noto Sans TC"],
      [key |-> "Japanese",
       search_terms |-> <<"notosansjp", "notosanscjkjp", "msgothic", "meiryo", "arialuni">>,
       family |-> "Noto Sans JP"],
      [key |-> "Korean",
       search_terms |-> <<"notosanskr", "notosanscjkkr", "malgun", "gulim", "arialuni">>,
       family |-> "Noto Sans KR"],
      [key |-> "Arabic",
       search_terms |-> <<"notosansarabic", "arial", "tahoma", "segoeui">>,
       family |-> "Noto Sans Arabic"],
      [key |-> "Egyptian_Arabic",
       search_terms |-> <<"notosansarabic", "arial">>,
       family |-> "Noto Sans Arabic"],
      [key |-> "Iranian_Persian",
       search_terms |-> <<"notosansarabic", "arial">>,
       family |-> "Noto Sans Arabic"],
      [key |-> "Urdu",
       search_terms |-> <<"notonastaliqurdu", "notosansarabic", "arial", "tahoma">>,
       family |-> "Noto Nastaliq Urdu"],
      [key |-> "Hindi",
       search_terms |-> <<"notosansdevanagari", "mangal", "nirmala", "aparajita">>,
       family |-> "Noto Sans Devanagari"],
      [key |-> "Marathi",
       search_terms |-> <<"notosansdevanagari", "mangal">>,
       family |-> "Noto Sans Devanagari"],
      [key |-> "Bengali",
       search_terms |-> <<"notosansbengali", "vrinda">>,
       family |-> "Noto Sans Bengali"],
      [key |-> "Telugu",
       search_terms |-> <<"notosanstelugu", "gautami">>,
       family |-> "Noto Sans Telugu"],
      [key |-> "Tamil",
       search_terms |-> <<"notosanstamil", "latha">>,
       family |-> "Noto Sans Tamil"],
      [key |-> "Gujarati",
       search_terms |-> <<"notosansgujarati", "shruti">>,
       family |-> "Noto Sans Gujarati"],
      [key |-> "Western_Punjabi",
       search_terms |-> <<"notosansarabic", "notosansgurmukhi", "raavi">>,
       family |-> "Noto Sans Gurmukhi"],
      [key |-> "Thai",
       search_terms |-> <<"notosansthai", "leelawadee", "tahoma">>,
       family |-> "Noto Sans Thai"],
      [key |-> "Javanese",
       search_terms |-> <<"notosansjavanese", "notosans-regular", "javatext">>,
       family |-> "Noto Sans Javanese"]
    >>

SAFE_FAMILY == "Calibri"

normalize_name(name) ==
    RemoveWght(
        Replace(
            Replace(
                Replace(RemoveSeparators(SplitExtRoot(Lower(name))), "regular", ""),
                "vf", ""),
            "variablefont", ""))

IsFontFile(f_lower) ==
    EndsWith(f_lower, ".ttf") \/ EndsWith(f_lower, ".otf") \/ EndsWith(f_lower, ".ttc")

IsVariableFont(f_lower) ==
    Contains(f_lower, "-vf") \/ Contains(f_lower, "variable") \/ Contains(f_lower, "wght")

\* (mutant) every path is appended, a collection file like any other
IndexFile_AppendAll(cache, root, f) ==
    LET f_lower == Lower(f)
        full_path == root \o "/" \o f
        norm_key == normalize_name(f)
        old == IF norm_key \in DOMAIN cache THEN cache[norm_key] ELSE <<>>
    IN  IF ~IsFontFile(f_lower) \/ IsVariableFont(f_lower) THEN cache
        ELSE [k \in (DOMAIN cache) \cup {norm_key} |->
                IF k = norm_key THEN Append(old, full_path) ELSE cache[k]]

\* one turn of the inner loop of scan_directory: file f found in root
IndexFile(cache, root, f) ==
    LET f_lower == Lower(f)
        full_path == root \o "/" \o f
        norm_key == normalize_name(f)
        old == IF norm_key \in DOMAIN cache THEN cache[norm_key] ELSE <<>>
    IN  IF ~IsFontFile(f_lower) \/ IsVariableFont(f_lower) THEN cache
        ELSE [k \in (DOMAIN cache) \cup {norm_key} |->
                IF k = norm_key
                THEN IF EndsWith(f_lower, ".ttc") THEN <<full_path>> \o old
                     ELSE Append(old, full_path)
                ELSE cache[k]]

RECURSIVE IndexFiles(_, _, _)
IndexFiles(cache, root, files) ==
    IF files = <<>> THEN cache
    ELSE IndexFiles(IndexFile(cache, root, Head(files)), root, Tail(files))

\* count += 1 for every file that was indexed
CountIndexed(files) ==
    Cardinality({k \in 1..Len(files) :
                    IsFontFile(Lower(files[k])) /\ ~IsVariableFont(Lower(files[k]))})

\* the orders in which a directory can list its files
Listings(S) == {s \in [1..Cardinality(S) -> S] : Range(s) = S}

\* scan_directory(base_path): a directory that is not there gives 0
scan_directory(base_path) ==
    /\ scans < MaxScans
    /\ scans' = scans + 1
    /\ IF ~disk[base_path].exists
       THEN scan_count' = 0 /\ UNCHANGED FONT_PATH_CACHE
       ELSE \E files \in Listings(disk[base_path].files) :
               /\ FONT_PATH_CACHE' = IndexFiles(FONT_PATH_CACHE, base_path, files)
               /\ scan_count' = CountIndexed(files)

\* a call of scan_directory on its own
ScanDirectory(base_path) ==
    /\ scan_directory(base_path)
    /\ UNCHANGED <<configVars, workerVars, mainVars, disk, language_name, font_family,
                   file_name, normalized, fmt_col>>

ConfigKeys == {FONT_CONFIG[k].key : k \in 1..Len(FONT_CONFIG)}

ConfigOf(key) == FONT_CONFIG[CHOOSE k \in 1..Len(FONT_CONFIG) : FONT_CONFIG[k].key = key]

\* step 1 of get_excel_font_family: the rule of the language, or the first
\* rule whose key is in the name, or the Default rule
RuleFor(name) ==
    IF name \in ConfigKeys THEN ConfigOf(name)
    ELSE LET lang_search == Replace(name, " ", "_")
             hits == {k \in 1..Len(FONT_CONFIG) : Contains(lang_search, FONT_CONFIG[k].key)}
         IN  IF hits = {} THEN ConfigOf("Default")
             ELSE FONT_CONFIG[CHOOSE k \in hits : \A j \in hits : k <= j]

SearchTerms == UNION {Range(FONT_CONFIG[k].search_terms) : k \in 1..Len(FONT_CONFIG)}

\* normalize_name(term) of the search terms of the table, worked out once
NormalizedTerm == [term \in SearchTerms |-> normalize_name(term)]

\* step 2: a search term is a key of the index or part of one
TermFound(term, cache) ==
    LET term_norm == NormalizedTerm[term]
    IN  \/ term_norm \in DOMAIN cache
        \/ \E cached_key \in DOMAIN cache : Contains(cached_key, term_norm)

\* (mutant) the family of the rule is returned whether or not a file was found
get_excel_font_family_NoFallback(name, cache) == RuleFor(name).family

get_excel_font_family(name, cache) ==
    LET config == RuleFor(name)
    IN  IF \E k \in 1..Len(config.search_terms) : TermFound(config.search_terms[k], cache)
        THEN config.family
        ELSE SAFE_FAMILY

\* the names the resolver is asked about: languages of the table, column
\* names as main() derives them from the headers, and names without a rule
LanguageNames ==
    {"Default", "Urdu", "French", "Thai", "Standard_Arabic", "English"}

\* (mutant) the resolver keeps its answer in the index, under the name asked
CallResolver_Memoises(name) ==
    /\ language_name' = name
    /\ font_family' = get_excel_font_family(name, FONT_PATH_CACHE)
    /\ FONT_PATH_CACHE' =
          [k \in (DOMAIN FONT_PATH_CACHE) \cup {name} |->
              IF k = name THEN <<font_family'>> ELSE FONT_PATH_CACHE[k]]
    /\ UNCHANGED <<scans, scan_count>>

\* font_family = get_excel_font_family(lang_name): the index is read only
CallResolver(name) ==
    /\ language_name' = name
    /\ font_family' = get_excel_font_family(name, FONT_PATH_CACHE)
    /\ UNCHANGED <<FONT_PATH_CACHE, scans, scan_count>>

\* a call of get_excel_font_family on its own
Resolve(name) ==
    /\ CallResolver(name)
    /\ UNCHANGED <<configVars, workerVars, mainVars, disk, file_name, normalized, fmt_col>>

\* ------------------------------------------------------------------------
\* SpecFont: scans of the font directories and calls of the resolver
\* ------------------------------------------------------------------------
FileNames ==
    {"NotoSans-Regular.ttf", "NotoSansThai-Regular.ttf", "NotoNastaliqUrdu-Regular.ttf",
     "NotoSansCJK.ttc", "NotoSansCJK-Regular.otf", "arial.ttf", "NotoSans-VF.ttf",
     "README.txt"}

\* files of the system font folder
SystemFileNames == {"arial.ttf", "mangal.ttf"}

DirStates(names) ==
    {[exists |-> FALSE, files |-> {}]}
    \cup {[exists |-> TRUE, files |-> fs] :
            fs \in {x \in SUBSET names : Cardinality(x) <= MaxFiles}}

InitFont ==
    /\ CHUNK_SIZE = 1
    /\ MAX_WORKERS = 1
    /\ unsupported = {}
    /\ provider = "up"
    /\ xlsx = <<>>
    /\ w = [t \in Tasks |-> IdleTask]
    /\ ProgressInit
    /\ MainOff
    /\ \E local \in DirStates(FileNames), system \in DirStates(SystemFileNames) :
          disk = [d \in FontDirs |-> IF d = "fonts" THEN local ELSE system]
    /\ FONT_PATH_CACHE = <<>>
    /\ scans = 0
    /\ scan_count = 0
    /\ language_name = ""
    /\ font_family = ""
    /\ file_name = ""
    /\ normalized = <<>>
    /\ fmt_col = 0

NextFont ==
    \/ \E d \in FontDirs : ScanDirectory(d)
    \/ \E name \in LanguageNames : Resolve(name)

SpecFont == InitFont /\ [][NextFont]_vars

\* ------------------------------------------------------------------------
\* Spec: a run of main()
\* ------------------------------------------------------------------------
\* scan_all_fonts, first half: local_count = scan_directory(FONTS_DIR)
ScanLocal ==
    /\ pc = "scan_local"
    /\ scan_directory("fonts")
    /\ pc' = "scan_system"
    /\ UNCHANGED <<configVars, workerVars, u_in, input_exists, sel_ids, target_ids, df, futures,
                   finished_futures, collected, pre_finished, results, total_chunks_global,
                   disk, language_name, font_family, file_name, normalized, fmt_col>>

\* second half: the system folder is scanned on Windows, where it is there
ScanSystem ==
    /\ pc = "scan_system"
    /\ IF disk["C:/Windows/Fonts"].exists
       THEN scan_directory("C:/Windows/Fonts")
       ELSE UNCHANGED <<FONT_PATH_CACHE, scans, scan_count>>
    /\ pc' = "prompt"
    /\ UNCHANGED <<configVars, workerVars, u_in, input_exists, sel_ids, target_ids, df, futures,
                   finished_futures, collected, pre_finished, results, total_chunks_global,
                   disk, language_name, font_family, file_name, normalized, fmt_col>>

\* lines 608-613: the language a column header stands for, "" for none
LangOfHeader(header) ==
    IF Lower(header) = "category" THEN "Default"
    ELSE IF EndsWith(header, "_word") THEN Replace(header, "_word", "")
    ELSE IF EndsWith(header, "_descr") THEN Replace(header, "_descr", "")
    ELSE ""

\* wb = load_workbook(OUTPUT_FILE); ws = wb.active
FormatStart ==
    /\ pc = "saved"
    /\ pc' = "format"
    /\ UNCHANGED <<configVars, fontVars, workerVars, u_in, input_exists, sel_ids, target_ids,
                   df, futures, finished_futures, collected, pre_finished, results,
                   total_chunks_global>>

\* the workbook cannot be opened: except Exception, a warning is printed
FormatFails ==
    /\ pc = "saved"
    /\ pc' = "end"
    /\ UNCHANGED <<configVars, fontVars, workerVars, u_in, input_exists, sel_ids, target_ids,
                   df, futures, finished_futures, collected, pre_finished, results,
                   total_chunks_global>>

\* one turn of the loop of lines 603-622
FormatColumn ==
    /\ pc = "format"
    /\ fmt_col < Len(df.cols)
    /\ fmt_col' = fmt_col + 1
    /\ LET lang_name == LangOfHeader(df.cols[fmt_col + 1])
       IN  IF lang_name # "" THEN CallResolver(lang_name)
           ELSE UNCHANGED <<language_name, font_family, FONT_PATH_CACHE, scans, scan_count>>
    /\ UNCHANGED <<configVars, workerVars, mainVars, disk, file_name, normalized>>

\* wb.save(OUTPUT_FILE)
FormatEnd ==
    /\ pc = "format"
    /\ fmt_col = Len(df.cols)
    /\ pc' = "end"
    /\ UNCHANGED <<configVars, fontVars, workerVars, u_in, input_exists, sel_ids, target_ids,
                   df, futures, finished_futures, collected, pre_finished, results,
                   total_chunks_global>>

\* the font folders of the run: two files that share a key in ./fonts, one
\* font in the system folder
RunDisk ==
    [d \in FontDirs |->
        IF d = "fonts"
        THEN [exists |-> TRUE, files |-> {"NotoSansCJK.ttc", "NotoSansCJK-Regular.otf"}]
        ELSE [exists |-> TRUE, files |-> {"arial.ttf"}]]

\* the rows of the tables tried: a word without description, then a word
\* with one, and so on
SampleRow(k) == IF k % 2 = 1 THEN <<Str("a"), NaN>> ELSE <<Str("b"), Str("c")>>

SampleTables == {[k \in 1..n |-> SampleRow(k)] : n \in 0..MaxRows}

Init ==
    /\ CHUNK_SIZE \in 1..MaxRunChunk
    /\ MAX_WORKERS \in 1..MaxPool
    /\ unsupported \in {{}, {"hi"}}
    /\ provider \in {"up", "down"}
    /\ xlsx \in SampleTables
    /\ w = [t \in Tasks |-> IdleTask]
    /\ ProgressInit
    /\ pc = "scan_local"
    /\ u_in \in UserInputs
    /\ input_exists \in BOOLEAN
    /\ sel_ids = <<>>
    /\ target_ids = <<>>
    /\ df = [cols |-> <<>>, data |-> <<>>, nrows |-> 0]
    /\ futures = 0
    /\ finished_futures = <<>>
    /\ collected = {}
    /\ pre_finished = {}
    /\ results = <<>>
    /\ total_chunks_global = 0
    /\ disk = RunDisk
    /\ FONT_PATH_CACHE = <<>>
    /\ scans = 0
    /\ scan_count = 0
    /\ language_name = ""
    /\ font_family = ""
    /\ file_name = ""
    /\ normalized = <<>>
    /\ fmt_col = 0

WorkerStep(t) ==
    \/ StartTask(t)
    \/ BatchTranslateStep(t)
    \/ ReturnWords(t)
    \/ ReturnDescr(t)
    \/ WorkerRaised(t)

MainStep ==
    \/ ScanLocal
    \/ ScanSystem
    \/ ReadSelection
    \/ LoadData
    \/ ComputeTotal
    \/ Submit
    \/ AsCompletedStart
    \/ Collect
    \/ Merge
    \/ Save
    \/ FormatStart
    \/ FormatFails
    \/ FormatColumn
    \/ FormatEnd

Next == MainStep \/ \E t \in Tasks : WorkerStep(t)

Spec == Init /\ [][Next]_vars

\* ------------------------------------------------------------------------
\* SpecNormalize: normalize_name on a name, then on what it returned
\* ------------------------------------------------------------------------
\* pieces of file names: letters, a capital, a digit, the separators, the dot,
\* an extension and the words normalize_name removes
NamePieces ==
    {"a", "N", "1", "-", "_", " ", ".", ".ttf", "regular", "vf", "variablefont", "wght"}

RECURSIVE NamesUpTo(_)
NamesUpTo(n) ==
    IF n = 0 THEN {""}
    ELSE NamesUpTo(n - 1) \cup {piece \o rest : piece \in NamePieces, rest \in NamesUpTo(n - 1)}

\* name = normalize_name(name), once more
Normalize ==
    /\ Len(normalized) < MaxApply
    /\ normalized' = Append(normalized,
                            normalize_name(IF normalized = <<>> THEN file_name
                                           ELSE normalized[Len(normalized)]))
    /\ UNCHANGED <<configVars, workerVars, mainVars, disk, FONT_PATH_CACHE, scans,
                   scan_count, language_name, font_family, file_name, fmt_col>>

InitNormalize ==
    /\ CHUNK_SIZE = 1
    /\ MAX_WORKERS = 1
    /\ unsupported = {}
    /\ provider = "up"
    /\ xlsx = <<>>
    /\ w = [t \in Tasks |-> IdleTask]
    /\ ProgressInit
    /\ MainOff
    /\ disk = [d \in FontDirs |-> [exists |-> FALSE, files |-> {}]]
    /\ FONT_PATH_CACHE = <<>>
    /\ scans = 0
    /\ scan_count = 0
    /\ language_name = ""
    /\ font_family = ""
    /\ file_name \in NamesUpTo(MaxPieces)
    /\ normalized = <<>>
    /\ fmt_col = 0

NextNormalize == Normalize

SpecNormalize == InitNormalize /\ [][NextNormalize]_vars

\* ------------------------------------------------------------------------
\* Claims about batch_translate_text (checked under SpecBatch)
\* ------------------------------------------------------------------------
Returned == w[1].pc = "returned"

PathsTaken == {w[1].hist[j].path : j \in 1..Len(w[1].hist)}

\* the batch that input position k (from 1) fell into
HistOf(k) ==
    CHOOSE j \in 1..Len(w[1].hist) :
        w[1].hist[j].lo < k /\ k <= w[1].hist[j].lo + Len(w[1].hist[j].batch)

\* what the provider's answers of the call make of input position k
ExpectedAt(k) ==
    LET h == w[1].hist[HistOf(k)]
        item == CleanItem(w[1].text_list[k])
    IN  IF item = "" THEN ""
        ELSE IF h.path = "degraded" /\ (k - h.lo) \in h.failed THEN TRANSLATION_ERROR
        ELSE w[1].code \o ":" \o item

\* C1: the sequence batch_translate_text returns is as long as its input,
\* whichever path each batch took.
C1_LengthPreserved ==
    Returned => Len(w[1].ret) = Len(w[1].text_list)

C1_Witness ==
    /\ Returned
    /\ Len(w[1].text_list) >= 3
    /\ PathsTaken = {"ok", "empty", "degraded"}
    /\ \E j \in 1..Len(w[1].hist) : w[1].hist[j].failed # {}

\* C2: position i of the output holds the result for input position i:
\* "" for an empty item, the sentinel for an item whose own call failed,
\* the translation of the item otherwise, across batch boundaries.
C2_OrderPreserved ==
    Returned =>
        /\ DOMAIN w[1].ret = 1..Len(w[1].text_list)
        /\ \A k \in 1..Len(w[1].text_list) : w[1].ret[k] = ExpectedAt(k)

\* the spec's example: batch size 2, batch 1 answers, batch 2 degrades
C2_Witness ==
    /\ Returned
    /\ CHUNK_SIZE = 2
    /\ Len(w[1].text_list) = 4
    /\ \A k \in 1..4 : CleanItem(w[1].text_list[k]) # ""
    /\ w[1].text_list[1] # w[1].text_list[2]
    /\ w[1].hist[1].path = "ok"
    /\ w[1].hist[2].path = "degraded"
    /\ w[1].hist[2].failed = {1}

HistSlice(h) == SubSeq(w[1].results, h.lo + 1, h.lo + Len(h.batch))

\* C3: a batch whose batched call raised has every non-empty item tried on
\* its own (one call each, none for an empty item); an item whose own call
\* failed is the sentinel, every other item keeps its translation, and the
\* call goes on with the next batch instead of raising.
C3_DegradePerItem ==
    /\ \A j \in 1..Len(w[1].hist) :
          LET h == w[1].hist[j]
              clean == CleanBatch(h.batch)
          IN  h.path = "degraded" =>
                /\ Len(HistSlice(h)) = Len(h.batch)
                /\ \A k \in 1..Len(h.batch) :
                      HistSlice(h)[k] =
                         IF clean[k] = "" THEN ""
                         ELSE IF k \in h.failed THEN TRANSLATION_ERROR
                         ELSE w[1].code \o ":" \o clean[k]
                /\ h.calls = 1 + Cardinality({k \in 1..Len(h.batch) : clean[k] # ""})
    /\ w[1].pc = "raised" => w[1].hist = <<>>

\* a degraded batch with a failed item, a surviving item and an empty item,
\* followed by a further batch
C3_Witness ==
    /\ Returned
    /\ Len(w[1].hist) >= 2
    /\ LET h == w[1].hist[1]
       IN  /\ h.path = "degraded"
           /\ h.failed # {}
           /\ \E k \in 1..Len(h.batch) : CleanItem(h.batch[k]) # "" /\ k \notin h.failed
           /\ \E k \in 1..Len(h.batch) : CleanItem(h.batch[k]) = ""

BlankCell(c) == c.na \/ Strip(c.s) = ""

\* C4: a batch of missing, empty or whitespace-only entries makes no remote
\* call and contributes one "" per entry.
C4_EmptyBatchNoCall ==
    \A j \in 1..Len(w[1].hist) :
        LET h == w[1].hist[j]
        IN  (\A k \in 1..Len(h.batch) : BlankCell(h.batch[k])) =>
               /\ h.calls = 0
               /\ HistSlice(h) = [k \in 1..Len(h.batch) |-> ""]

C4_Witness ==
    /\ Returned
    /\ \E j \in 1..Len(w[1].hist) :
          LET h == w[1].hist[j]
          IN  /\ h.path = "empty"
              /\ Len(h.batch) >= 2
              /\ \E k \in 1..Len(h.batch) : h.batch[k] = NaN
              /\ \E k \in 1..Len(h.batch) : h.batch[k] = Str(" ")
    /\ \E j \in 1..Len(w[1].hist) : w[1].hist[j].calls > 0

\* ------------------------------------------------------------------------
\* Claims about a run (checked under Spec)
\* ------------------------------------------------------------------------

\* C5: no increment of the progress counter is lost, however the workers
\* interleave: the counter equals the number of calls that went through, and
\* the k-th call to go through draws the bar from (k, total), the pair it
\* read under the lock together with its own increment; so no two calls see
\* the same processed value.
C5_NoLostIncrement ==
    /\ processed_chunks_global = Len(rendered)
    /\ \A k \in 1..Len(rendered) : rendered[k] = <<k, total_chunks_global>>
    /\ \A j, k \in 1..Len(rendered) : j # k => rendered[j][1] # rendered[k][1]

\* one worker inside the lock while another waits to enter it
C5_Witness ==
    /\ Len(rendered) >= 2
    /\ \E t, u \in Tasks :
          /\ t # u
          /\ w[t].pc = "upb_locked"
          /\ w[u].pc = "upb"

\* ceil(row_count / batch_size) * 2 * number of selected entries that are
\* not the source language, said without the model's operators
ExpectedTotal ==
    LET n == Len(xlsx)
        q == CHOOSE c \in 0..n :
                /\ c * CHUNK_SIZE >= n
                /\ c = 0 \/ (c - 1) * CHUNK_SIZE < n
    IN  q * 2 * Cardinality({k \in DOMAIN sel_ids : sel_ids[k] # 1})

ExpectedName == <<"English", "Mandarin_Chinese", "Hindi">>

WordCol(t) == ExpectedName[target_ids[t]] \o "_word"

DescrCol(t) == ExpectedName[target_ids[t]] \o "_descr"

\* data is a column of task t's language made from source column src (1 or 2)
OwnValues(t, data, src) ==
    /\ DOMAIN data = 1..Len(xlsx)
    /\ \A k \in 1..Len(xlsx) :
          LET cell == xlsx[k][src]
          IN  IF cell.na \/ Strip(cell.s) = ""
              THEN data[k] = ""
              ELSE data[k] \in {langs[target_ids[t]].code \o ":" \o cell.s,
                                TRANSLATION_ERROR}

AfterMerge == pc \in {"save", "saved"} /\ futures > 0

\* task t has a step to take: a queued task when it is the oldest queued and
\* a thread is free, a task before update_progress_bar when the lock is free,
\* any other unfinished task always
CanStep(t) ==
    \/ /\ w[t].pc = "queued"
       /\ \A u \in Tasks : u < t => w[u].pc # "queued"
       /\ Cardinality({u \in Tasks : Running(u)}) < MAX_WORKERS
    \/ w[t].pc = "upb" /\ progress_lock = 0
    \/ w[t].pc \in {"loop", "upb_locked", "raised"}

\* C7: when a language's task raised, the merged table lacks exactly that
\* language's two columns; the columns of every language whose task returned
\* are there with that language's own values; and the run is not stopped: the
\* merge does not crash, and while main() waits for results there is a
\* result to collect or a task that can go on, so the save is reached.
C7_FailedTaskOmitted ==
    /\ pc # "crashed"
    /\ pc = "collect" => Yieldable # {} \/ \E t \in 1..futures : CanStep(t)
    /\ AfterMerge =>
          /\ \A t \in 1..futures :
                /\ w[t].pc \in {"done", "failed"}
                /\ w[t].pc = "failed" =>
                      WordCol(t) \notin Range(df.cols) /\ DescrCol(t) \notin Range(df.cols)
                /\ w[t].pc = "done" =>
                      /\ WordCol(t) \in Range(df.cols) /\ DescrCol(t) \in Range(df.cols)
                      /\ OwnValues(t, df.data[WordCol(t)], 1)
                      /\ OwnValues(t, df.data[DescrCol(t)], 2)
          /\ Range(df.cols) =
                {"English_word", "English_descr"}
                \cup {WordCol(t) : t \in {u \in 1..futures : w[u].pc = "done"}}
                \cup {DescrCol(t) : t \in {u \in 1..futures : w[u].pc = "done"}}

\* saved, with one task that raised and one that returned translations
C7_Witness ==
    /\ pc = "saved"
    /\ Len(xlsx) >= 1
    /\ \E t, u \in 1..futures :
          /\ w[t].pc = "failed"
          /\ w[u].pc = "done"
          /\ df.data[WordCol(u)][1] = langs[target_ids[u]].code \o ":" \o xlsx[1][1].s

DoneTasks == {t \in 1..futures : w[t].pc = "done"}

\* the names in s, each at its first place
RECURSIVE Dedupe(_)
Dedupe(s) ==
    IF s = <<>> THEN <<>>
    ELSE LET d == Dedupe(Front1(s))
         IN  IF s[Len(s)] \in Range(d) THEN d ELSE Append(d, s[Len(s)])

\* the translated columns of the tasks in ts, two per task, in the order ts
NamesOf(ts) ==
    Dedupe([k \in 1..(2 * Len(ts)) |->
              IF k % 2 = 1 THEN WordCol(ts[(k + 1) \div 2]) ELSE DescrCol(ts[k \div 2])])

SubmissionOrder == SelectSeq([t \in 1..futures |-> t], LAMBDA t : w[t].pc = "done")

\* C8 as the spec has it: the table does not depend on the order in which
\* the tasks finish, column placement included. The run that collects its
\* results in submission order exists, so this says that every run places the
\* translated columns in submission order.
C8_PlacementFixed ==
    pc = "saved" /\ futures > 0 =>
        df.cols = <<"English_word", "English_descr">> \o NamesOf(SubmissionOrder)

\* the results in the order as_completed handed them over
CollectionOrder(ts) ==
    [k \in 1..Len(results) |->
        CHOOSE t \in ts : results[k].w_col = WordCol(t)]

\* C8 (amended): the set of columns and the values under every column name
\* do not depend on the order in which the tasks finish: the table has the
\* source columns and the two columns of every language whose task returned,
\* each holding what a task of that language returned. The placement does:
\* the translated columns stand in the order their results were collected.
C8_ValuesByName ==
    pc = "saved" /\ futures > 0 =>
        /\ Range(df.cols) =
              {"English_word", "English_descr"}
              \cup {WordCol(t) : t \in DoneTasks} \cup {DescrCol(t) : t \in DoneTasks}
        /\ \A t \in DoneTasks :
              /\ df.data[WordCol(t)] \in
                    {w[u].ret.w_data : u \in {v \in DoneTasks : WordCol(v) = WordCol(t)}}
              /\ df.data[DescrCol(t)] \in
                    {w[u].ret.d_data : u \in {v \in DoneTasks : WordCol(v) = WordCol(t)}}
        /\ Len(results) = Cardinality(DoneTasks)
        /\ df.cols = <<"English_word", "English_descr">>
                        \o NamesOf(CollectionOrder(DoneTasks))

\* two languages, the second submitted collected first, words and
\* descriptions different
C8_Witness ==
    /\ pc = "saved"
    /\ target_ids = <<2, 3>>
    /\ DoneTasks = {1, 2}
    /\ df.cols = <<"English_word", "English_descr", "Hindi_word", "Hindi_descr",
                   "Mandarin_Chinese_word", "Mandarin_Chinese_descr">>
    /\ Len(xlsx) >= 1
    /\ df.data["Hindi_word"] # df.data["Hindi_descr"]

\* the same run collected in submission order
C8_SubmissionOrderRun ==
    /\ pc = "saved"
    /\ target_ids = <<2, 3>>
    /\ DoneTasks = {1, 2}
    /\ df.cols = <<"English_word", "English_descr",
                   "Mandarin_Chinese_word", "Mandarin_Chinese_descr",
                   "Hindi_word", "Hindi_descr">>

\* ------------------------------------------------------------------------
\* Claims about the font resolver (checked under SpecFont)
\* ------------------------------------------------------------------------
Resolved == language_name # ""

\* no rule of the table is named like the language or has its key in the name
NoRuleMatches(name) ==
    /\ \A k \in 1..Len(FONT_CONFIG) : FONT_CONFIG[k].key # name
    /\ \A k \in 1..Len(FONT_CONFIG) : ~Contains(Replace(name, " ", "_"), FONT_CONFIG[k].key)

\* no normalized search term of the Default rule is an indexed key or part of one
NoDefaultTermIndexed ==
    \A k \in 1..Len(FONT_CONFIG) :
        FONT_CONFIG[k].key = "Default" =>
            \A j \in 1..Len(FONT_CONFIG[k].search_terms) :
                \A key \in DOMAIN FONT_PATH_CACHE :
                    ~Contains(key, normalize_name(FONT_CONFIG[k].search_terms[j]))

\* C9: for a language without a rule and an index in which no search term of
\* the rule applied (Default) is found, the resolver answers the safe family
\* "Calibri": no Noto family, and not an empty answer.
C9_FallbackIsSafe ==
    Resolved /\ NoRuleMatches(language_name) /\ NoDefaultTermIndexed =>
        /\ font_family = "Calibri"
        /\ ~Contains(font_family, "Noto")
        /\ font_family # ""

\* fonts are indexed, none of them serves the Default rule
C9_Witness ==
    /\ language_name = "English"
    /\ NoRuleMatches(language_name)
    /\ NoDefaultTermIndexed
    /\ Cardinality(DOMAIN FONT_PATH_CACHE) >= 2
    /\ font_family = "Calibri"

\* C10: a family other than the safe fallback is returned only when the index
\* holds a font file of that family (a key that has the family's normalized
\* name in it).
C10_FamilyIndexed ==
    Resolved /\ font_family # SAFE_FAMILY =>
        \E key \in DOMAIN FONT_PATH_CACHE : Contains(key, normalize_name(font_family))

\* ------------------------------------------------------------------------
\* C11 (SpecNormalize)
\* ------------------------------------------------------------------------
\* C11: normalize_name is idempotent: handed its own result, it returns that
\* result unchanged, normalize(normalize(x)) = normalize(x), for every x.
C11_Idempotent ==
    Len(normalized) >= 2 => normalized[2] = normalized[1]

\* ------------------------------------------------------------------------
\* C12 (SpecFont)
\* ------------------------------------------------------------------------
IsCollection(path) == EndsWith(Lower(path), ".ttc")

\* C12: after any scans, whatever the order the files were found in, every
\* entry of the font index lists its collection (.ttc) paths before all its
\* other paths.
C12_CollectionsFirst ==
    \A key \in DOMAIN FONT_PATH_CACHE :
        \A i, j \in 1..Len(FONT_PATH_CACHE[key]) :
            (i < j /\ IsCollection(FONT_PATH_CACHE[key][j]))
                => IsCollection(FONT_PATH_CACHE[key][i])

\* a collection file and another file share a key and both are indexed
C12_Witness ==
    \E key \in DOMAIN FONT_PATH_CACHE :
        /\ Len(FONT_PATH_CACHE[key]) = 2
        /\ IsCollection(FONT_PATH_CACHE[key][1])
        /\ ~IsCollection(FONT_PATH_CACHE[key][2])

\* ------------------------------------------------------------------------
\* C13, C14 (SpecBatch)
\* ------------------------------------------------------------------------
\* the batches the call is done with: all but the one it is working on
Completed == {k \in 1..Len(w[1].hist) : k < Len(w[1].hist) \/ w[1].pc \in {"loop", "returned"}}

\* C13 as stated: after every batch, short-circuited ones included, the job
\* pauses for the request delay before it starts its next batch.
C13_PauseAfterEveryBatch ==
    \A k \in Completed : w[1].hist[k].sleeps = 1

\* C13 as amended: after every batch for which a remote call was made or
\* attempted (batched success, degraded) the job pauses once before its next
\* batch; after an all-empty batch, which makes no call, it does not pause.
C13_PauseAfterRemoteCall ==
    \A k \in Completed :
        /\ w[1].hist[k].calls > 0 => w[1].hist[k].sleeps = 1
        /\ w[1].hist[k].calls = 0 => w[1].hist[k].sleeps = 0

\* a call that is over had a batch of each kind
C13_Witness ==
    /\ Returned
    /\ \E a, b, c \in Completed :
          /\ w[1].hist[a].path = "ok" /\ w[1].hist[a].sleeps = 1
          /\ w[1].hist[b].path = "degraded" /\ w[1].hist[b].sleeps = 1
          /\ w[1].hist[c].path = "empty" /\ w[1].hist[c].sleeps = 0

\* C14: batch_translate_text advances the progress counter exactly once per
\* batch on every path, so a call over n values with batch size b makes
\* ceil(n/b) advances.
C14_OneAdvancePerBatch ==
    /\ \A k \in Completed : w[1].hist[k].advances = 1
    /\ processed_chunks_global = Cardinality(Completed)
    /\ Returned =>
          /\ Len(w[1].hist) = Ceil(Len(w[1].text_list), CHUNK_SIZE)
          /\ processed_chunks_global = Ceil(Len(w[1].text_list), CHUNK_SIZE)

\* a call over two batches, the second one short: one short-circuited, the
\* other sent and degraded
C14_Witness ==
    /\ Returned
    /\ PathsTaken = {"empty", "degraded"}
    /\ Len(w[1].text_list) % CHUNK_SIZE # 0
    /\ processed_chunks_global = 2

\* ------------------------------------------------------------------------
\* C15 .. C17, C19 (Spec)
\* ------------------------------------------------------------------------
RunningTasks == {t \in Tasks : Running(t)}

PoolBound == Cardinality(RunningTasks) <= MAX_WORKERS

\* nothing is collected while a task is still to be submitted
SubmittedBeforeCollected ==
    collected # {} => futures = Len(target_ids)

\* the tasks that finished and are not collected, oldest completion first
Uncollected == SelectSeq(finished_futures, LAMBDA t : t \notin collected)

\* the step collects a task, and it is the one that finished first among
\* those not collected yet
CollectsOldestFinished ==
    collected' # collected =>
        /\ Uncollected # <<>>
        /\ collected' = collected \cup {Uncollected[1]}

\* the step collects a finished task: one of those found finished when
\* as_completed started, or, when these are all collected, the one that
\* finished first among the others
CollectsAsCompleted ==
    collected' # collected =>
        \E t \in 1..futures :
            /\ collected' = collected \cup {t}
            /\ t \notin collected
            /\ Finished(t)
            /\ \/ t \in pre_finished
               \/ pre_finished \subseteq collected /\ t = Uncollected[1]

\* C15 as stated: at most MAX_WORKERS tasks execute at any moment, all tasks
\* are submitted before any result is collected, and results are collected
\* in completion order.
C15_CompletionOrder ==
    /\ [](PoolBound /\ SubmittedBeforeCollected)
    /\ [][CollectsOldestFinished]_vars

\* C15 as amended: at most MAX_WORKERS tasks execute at any moment, all tasks
\* are submitted before any result is collected, and a result is collected
\* only once its task has finished: the tasks already finished when
\* collection starts come first, in any order, the others follow in
\* completion order.
C15_BoundedPoolAsCompleted ==
    /\ [](PoolBound /\ SubmittedBeforeCollected)
    /\ [][CollectsAsCompleted]_vars

\* two tasks ran side by side, the second submitted finished first while
\* collection was waiting, and it was collected first
C15_Witness ==
    /\ pc = "merge"
    /\ MAX_WORKERS = 2
    /\ finished_futures = <<2, 1>>
    /\ pre_finished = {}
    /\ Len(results) = 2
    /\ results[1] = w[2].ret

NoTaskAtWork == \A t \in Tasks : w[t].pc \in {"idle", "done", "failed"}

\* C16: the table is changed only by a step of main(), and only while no
\* task is queued or running: when it is read, before any task is
\* submitted, and when the results are merged, after every task returned or
\* raised.
C16_TableChangedAfterJoin ==
    [][df' # df =>
          /\ w' = w
          /\ NoTaskAtWork
          /\ \/ pc = "load" /\ futures = 0
             \/ pc = "merge" /\ futures = Len(target_ids)
                              /\ \A t \in 1..futures : Finished(t)]_vars

\* the columns of a returned task are in the table, a second task raised
C16_Witness ==
    /\ pc = "save"
    /\ futures = 2
    /\ Len(df.cols) = 4
    /\ \E t, u \in 1..futures : w[t].pc = "done" /\ w[u].pc = "failed"

\* the submission loop of main() is over
AllSubmitted ==
    pc \in {"as_completed", "collect", "merge", "save", "saved", "format", "end", "crashed"}

TasksFor(lang_id) == {t \in 1..futures : w[t].lang = lang_id}

\* C17: for every accepted selection exactly one task is created and
\* submitted for each selected language other than the source language
\* (id 1), and none for the source language or for a language not selected.
C17_OneTaskPerLanguage ==
    AllSubmitted =>
        /\ \A lang_id \in Range(sel_ids) \ {1} : Cardinality(TasksFor(lang_id)) = 1
        /\ \A t \in 1..futures : w[t].lang \in Range(sel_ids) \ {1}

AllTasksReturned ==
    /\ AllSubmitted
    /\ futures = Len(target_ids)
    /\ \A t \in 1..futures : w[t].pc = "done"

\* C19: in every state of a run the processed counter is at most the total,
\* and once every language task has returned without raising the two are
\* equal.
C19_ProcessedWithinTotal ==
    /\ processed_chunks_global <= total_chunks_global
    /\ AllTasksReturned => processed_chunks_global = total_chunks_global

\* two tasks returned, each after two batches of words and two of
\* descriptions
C19_Witness ==
    /\ AllTasksReturned
    /\ futures = 2
    /\ Ceil(df.nrows, CHUNK_SIZE) = 2
    /\ processed_chunks_global = 8

\* ------------------------------------------------------------------------
\* C18 (Spec)
\* ------------------------------------------------------------------------
ScanPhase == pc \in {"scan_local", "scan_system"}

NoResolutionYet == language_name = "" /\ font_family = "" /\ fmt_col = 0

NoTaskYet == futures = 0 /\ \A t \in Tasks : w[t].pc = "idle"

\* a step that calls the resolver
ResolverCalled == fmt_col' # fmt_col /\ LangOfHeader(df.cols[fmt_col + 1]) # ""

\* C18: the font index is changed only by a scan_directory of the scan
\* phase; the scan phase is over before any task is submitted or started and
\* before any resolution; and a call of get_excel_font_family leaves the
\* index as it was.
C18_IndexWriteOnce ==
    /\ [][FONT_PATH_CACHE' # FONT_PATH_CACHE => ScanPhase /\ scans' = scans + 1]_vars
    /\ [][scans' # scans => ScanPhase /\ NoTaskYet /\ NoResolutionYet]_vars
    /\ [](ScanPhase => NoTaskYet /\ NoResolutionYet)
    /\ [][ScanPhase' => ScanPhase]_vars
    /\ [][ResolverCalled =>
             /\ FONT_PATH_CACHE' = FONT_PATH_CACHE
             /\ language_name' = LangOfHeader(df.cols[fmt_col + 1])
             /\ font_family' = get_excel_font_family(language_name', FONT_PATH_CACHE)]_vars

\* both folders were scanned, a task returned its translations, and the
\* resolver was then asked about its language, with the index of the scans
C18_Witness ==
    /\ pc = "end"
    /\ scans = 2
    /\ DOMAIN FONT_PATH_CACHE = {"notosanscjk", "arial"}
    /\ \E t \in 1..futures : w[t].pc = "done"
    /\ fmt_col = 4
    /\ language_name = "Hindi"
    /\ font_family # ""

====
